---- MODULE Spec2Model ----
(***************************************************************************)
(* Model of the SQLMesh templater of sqlfluff-sqlmesh-templater:           *)
(*   _process_sql_script      (statement bounding + slice assembly)        *)
(*   _process_select_statement (character scan, macro substitution)        *)
(* Strings are sequences of one-character strings.  Offsets are 0-based    *)
(* as in the Python source; At and Slice translate to 1-based sequences.   *)
(***************************************************************************)
EXTENDS Integers, Sequences, FiniteSets, TLC

VARIABLES
    pc,                       \* position in _process_sql_script
    input_str,                \* the source text
    select_start_pos,         \* templater.py:219
    select_end_pos,           \* templater.py:220
    select_statement,         \* templater.py:239
    pos,                      \* templater.py:40
    tpl_pos,                  \* templater.py:40
    output,                   \* templater.py:38
    raw_slices,               \* templater.py:41
    tpl_slices,               \* templater.py:41
    current_slice_type,       \* templater.py:43
    current_raw_slice_start,  \* templater.py:44
    current_tpl_slice_start,  \* templater.py:45
    paren_count,              \* templater.py:144
    read_idx,                 \* indices of select_statement subscripted by the last iteration
    templated_str,            \* TemplatedFile.templated_str, templater.py:290
    sliced_file,              \* TemplatedFile.sliced_file,   templater.py:291
    raw_sliced                \* TemplatedFile.raw_sliced,    templater.py:292

vars == <<pc, input_str, select_start_pos, select_end_pos, select_statement,
          pos, tpl_pos, output, raw_slices, tpl_slices, current_slice_type,
          current_raw_slice_start, current_tpl_slice_start, paren_count,
          read_idx, templated_str, sliced_file, raw_sliced>>

-----------------------------------------------------------------------------
(* Bounds and inputs *)

\* Largest number of lexemes concatenated into an enumerated source text.
MaxChunks == 4

\* Python's None, for the integer-valued locals.
None == -1

\* Python's None, for current_slice_type.
NoSlice == "None"

\* What a subscript outside the string yields (Python raises IndexError).
IndexError == "IndexError"

SelectKw == <<"S", "E", "L", "E", "C", "T">>

\* The lexemes the enumerated source texts are built from.
Chunks == {SelectKw, <<";">>, <<"@">>, <<"f">>, <<" ">>, <<"(">>, <<")">>}

RECURSIVE Texts(_)
Texts(n) ==
    IF n = 0 THEN {<< >>}
    ELSE LET T == Texts(n - 1) IN T \cup {t \o c : t \in T, c \in Chunks}

\* "SELECT @foo() AS x;"
Scenario1 ==
    <<"S","E","L","E","C","T"," ","@","f","o","o","(",")"," ","A","S"," ","x",";">>

\* "m(@g(1));\nSELECT @key (a, (b),\n c) AS k, @v, @w() FROM (SELECT 1) t;\nVACUUM @this;"
Scenario2 ==
    <<"m","(","@","g","(","1",")",")",";","\n","S","E","L","E","C","T",
      " ","@","k","e","y"," ","(","a",","," ","(","b",")",",","\n"," ",
      "c",")"," ","A","S"," ","k",","," ","@","v",","," ","@","w","(",
      ")"," ","F","R","O","M"," ","(","S","E","L","E","C","T"," ","1",
      ")"," ","t",";","\n","V","A","C","U","U","M"," ","@","t","h","i",
      "s",";">>

\* "SELECT @f(a, @g(b" : a function call macro that is never closed
Scenario3 ==
    <<"S","E","L","E","C","T"," ","@","f","(","a",","," ","@","g","(","b">>

Scenarios == {Scenario1, Scenario2, Scenario3}

Inputs == Texts(MaxChunks) \cup Scenarios

-----------------------------------------------------------------------------
(* Strings *)

\* s[p] of Python, for p >= 0.
At(s, p) == IF 0 <= p /\ p < Len(s) THEN s[p + 1] ELSE IndexError

\* s[a:b] of Python, for 0 <= a and 0 <= b.
Slice(s, a, b) ==
    LET e == IF b < Len(s) THEN b ELSE Len(s)
    IN  IF a >= e THEN << >> ELSE SubSeq(s, a + 1, e)

Letters ==
    {"a","b","c","d","e","f","g","h","i","j","k","l","m","n","o","p","q","r","s","t",
     "u","v","w","x","y","z","A","B","C","D","E","F","G","H","I","J","K","L","M","N",
     "O","P","Q","R","S","T","U","V","W","X","Y","Z"}

Digits == {"0","1","2","3","4","5","6","7","8","9"}

\* str.isalnum() on one character
isalnum(c) == c \in Letters \cup Digits

\* str.isspace() on one character
isspace(c) == c \in {" ", "\n", "\t", "\r"}

\* templater.py:118
IsIdentChar(c) == isalnum(c) \/ c = "_"

-----------------------------------------------------------------------------
(* The tokenizer (sqlglot.tokens.Tokenizer, called at templater.py:216-217).  *)
(* Only what _process_sql_script reads of a token is modelled: token_type,    *)
(* start (index of the first character) and end (index of the LAST character, *)
(* which is why tests/test_templater.py expects the rendered statement        *)
(* without its ';').  Whitespace yields no token, a word is one token (SELECT *)
(* when it is the keyword), any other character is a token of its own.        *)

RECURSIVE WordEnd(_, _)
WordEnd(s, p) == IF p < Len(s) /\ IsIdentChar(At(s, p)) THEN WordEnd(s, p + 1) ELSE p

RECURSIVE TokenizeFrom(_, _)
TokenizeFrom(s, p) ==
    IF p >= Len(s) THEN << >>
    ELSE IF isspace(At(s, p)) THEN TokenizeFrom(s, p + 1)
    ELSE IF IsIdentChar(At(s, p)) THEN
        LET e == WordEnd(s, p)
            ty == IF Slice(s, p, e) = SelectKw THEN "SELECT" ELSE "VAR"
        IN  <<[token_type |-> ty, start |-> p, end |-> e - 1]>> \o TokenizeFrom(s, e)
    ELSE
        <<[token_type |-> IF At(s, p) = ";" THEN "SEMICOLON" ELSE "OTHER",
           start |-> p, end |-> p]>> \o TokenizeFrom(s, p + 1)

tokenize(s) == TokenizeFrom(s, 0)

-----------------------------------------------------------------------------
(* _process_sql_script: locating the statement, templater.py:219-234 *)

\* IsFirstSelect without "and not select_discovered": every SELECT token
\* moves select_start_pos.
IsFirstSelect_AnySelect(token, select_discovered) ==
    token.token_type = "SELECT"

\* templater.py:224
IsFirstSelect(token, select_discovered) ==
    token.token_type = "SELECT" /\ ~select_discovered

\* templater.py:228
IsSeparator(token) == token.token_type = "SEMICOLON"

\* The for loop of templater.py:223-230, from token i on; b holds
\* select_start_pos, select_end_pos and select_discovered.
RECURSIVE ScanTokens(_, _, _)
ScanTokens(tokens, i, b) ==
    IF i > Len(tokens) THEN b
    ELSE LET token == tokens[i] IN
        IF IsFirstSelect(token, b.select_discovered) THEN
            ScanTokens(tokens, i + 1,
                       [b EXCEPT !.select_start_pos = token.start,
                                 !.select_discovered = TRUE])
        ELSE IF b.select_discovered /\ IsSeparator(token) THEN
            [b EXCEPT !.select_end_pos = token.end]          \* break
        ELSE ScanTokens(tokens, i + 1, b)

\* templater.py:219-232
FindSelect(s) ==
    LET b == ScanTokens(tokenize(s), 1,
                        [select_start_pos |-> None, select_end_pos |-> None,
                         select_discovered |-> FALSE])
    IN  IF b.select_discovered /\ b.select_end_pos = None
        THEN [b EXCEPT !.select_end_pos = Len(s)]
        ELSE b

-----------------------------------------------------------------------------
(* _process_select_statement, templater.py:25-200.  The locals of one call   *)
(* are passed around as a record st; select_statement and select_start are   *)
(* the call's arguments.                                                      *)

\* placeholder without its quotes.
placeholder_Unquoted == <<"P", "L", "A", "C", "E", "H", "O", "L", "D", "E", "R">>

\* templater.py:157
placeholder == <<"'", "P", "L", "A", "C", "E", "H", "O", "L", "D", "E", "R", "'">>

\* _start_new_slice, templater.py:47-58
start_new_slice(st, slice_type, source_idx, templated_idx) ==
    [st EXCEPT !.current_slice_type = slice_type,
               !.current_raw_slice_start = source_idx,
               !.current_tpl_slice_start = templated_idx]

\* _end_current_slice, templater.py:60-88
end_current_slice(st, source_idx, templated_idx) ==
    IF st.current_slice_type # NoSlice THEN
        [st EXCEPT
            !.raw_slices = Append(@,
                [raw |-> Slice(select_statement,
                               st.current_raw_slice_start - select_start_pos,
                               source_idx - select_start_pos),
                 slice_type |-> st.current_slice_type,
                 source_idx |-> st.current_raw_slice_start]),
            !.tpl_slices = Append(@,
                [slice_type |-> st.current_slice_type,
                 source_slice |-> <<st.current_raw_slice_start, source_idx>>,
                 templated_slice |-> <<st.current_tpl_slice_start, templated_idx>>]),
            !.current_slice_type = NoSlice,
            !.current_raw_slice_start = None,
            !.current_tpl_slice_start = None]
    ELSE st

\* The identifier loop, templater.py:117-120: the value of pos after it.
RECURSIVE IdentEnd(_, _)
IdentEnd(s, p) ==
    IF p < Len(s) /\ IsIdentChar(At(s, p)) THEN IdentEnd(s, p + 1) ELSE p

\* The whitespace loop, templater.py:127-130: the value of pos after it.
RECURSIVE SpaceEnd(_, _)
SpaceEnd(s, p) ==
    IF p < Len(s) /\ isspace(At(s, p)) THEN SpaceEnd(s, p + 1) ELSE p

\* CountParen that does not count nested opening parentheses.
CountParen_NoNesting(c, n) ==
    IF c = ")" THEN n - 1 ELSE n

\* templater.py:146-149: paren_count after looking at character c.
CountParen(c, n) ==
    IF c = "(" THEN n + 1 ELSE IF c = ")" THEN n - 1 ELSE n

\* The argument loop, templater.py:145-150: pos and paren_count after it.
RECURSIVE ArgsScan(_, _, _)
ArgsScan(s, p, n) ==
    IF p < Len(s) /\ n > 0
    THEN ArgsScan(s, p + 1, CountParen(At(s, p), n))
    ELSE [pos |-> p, paren_count |-> n]

\* FuncArgsEnd without the "- 1".
FuncArgsEnd_OffByOne(p) == p

\* templater.py:151
FuncArgsEnd(p) == p - 1

\* The indices a loop "while pos < len(s) and test(s[pos])" subscripts when it
\* starts at from and leaves pos at to: s[to] is read unless to = len(s).
LoopReads(s, from, to) == {i \in from..to : i < Len(s)}

\* The function call branch, templater.py:134-183; st.pos is at the "(".
FuncCall(st) ==
    LET s6 == [st EXCEPT !.output = Append(@, "("),
                         !.tpl_pos = @ + 1,
                         !.pos = @ + 1]
        s7 == end_current_slice(s6, select_start_pos + s6.pos, s6.tpl_pos)
        func_args_start == s7.pos
        scan == ArgsScan(select_statement, func_args_start, 1)
        func_args_end == FuncArgsEnd(scan.pos)
        func_args_source_start == select_start_pos + func_args_start
        func_args_source_end == select_start_pos + func_args_end
        s8 == [s7 EXCEPT
                !.paren_count = scan.paren_count,
                !.read_idx = @ \cup (func_args_start .. scan.pos - 1) \cup {func_args_end},
                !.raw_slices = Append(@,
                    [raw |-> Slice(select_statement, func_args_start, func_args_end),
                     slice_type |-> "templated",
                     source_idx |-> func_args_source_start]),
                !.tpl_slices = Append(@,
                    [slice_type |-> "templated",
                     source_slice |-> <<func_args_source_start, func_args_source_end>>,
                     templated_slice |-> <<s7.tpl_pos, s7.tpl_pos + Len(placeholder)>>]),
                !.output = @ \o placeholder,
                !.tpl_pos = @ + Len(placeholder)]
        c == At(select_statement, func_args_end)
        source_idx == select_start_pos + func_args_end
        s9 == start_new_slice(s8, "literal", source_idx, s8.tpl_pos)
    IN  [s9 EXCEPT !.output = Append(@, c),
                   !.tpl_pos = @ + 1,
                   !.pos = func_args_end + 1]

\* The "@" branch, templater.py:94-186; st.pos is at the "@".
MacroBranch(st, source_idx) ==
    LET s1 == end_current_slice(st, source_idx, st.tpl_pos)
        s2 == [s1 EXCEPT
                !.raw_slices = Append(@,
                    [raw |-> <<"@">>, slice_type |-> "templated",
                     source_idx |-> source_idx]),
                !.tpl_slices = Append(@,
                    [slice_type |-> "templated",
                     source_slice |-> <<source_idx, source_idx + 1>>,
                     templated_slice |-> <<s1.tpl_pos, s1.tpl_pos>>]),
                !.pos = @ + 1]
        s3 == start_new_slice(s2, "literal", source_idx + 1, s2.tpl_pos)
        ident_start == s3.pos
        ident_end == IdentEnd(select_statement, ident_start)
        ident == Slice(select_statement, ident_start, ident_end)
        s4 == [s3 EXCEPT !.pos = ident_end,
                         !.output = @ \o ident,
                         !.tpl_pos = @ + Len(ident)]
        space_end == SpaceEnd(select_statement, s4.pos)
        s5 == [s4 EXCEPT
                !.output = @ \o Slice(select_statement, s4.pos, space_end),
                !.tpl_pos = @ + (space_end - s4.pos),
                !.pos = space_end,
                !.read_idx = @ \cup LoopReads(select_statement, ident_start, ident_end)
                               \cup LoopReads(select_statement, ident_end, space_end)
                               \cup LoopReads(select_statement, space_end, space_end)]
    IN  IF s5.pos < Len(select_statement) /\ At(select_statement, s5.pos) = "("
        THEN FuncCall(s5)
        ELSE s5

\* RegularBranch that starts the literal slice after it advanced tpl_pos.
RegularBranch_LateStart(st, c, source_idx) ==
    LET s1 == [st EXCEPT !.output = Append(@, c),
                         !.tpl_pos = @ + 1,
                         !.pos = @ + 1]
    IN  IF st.current_slice_type # "literal"
        THEN start_new_slice(s1, "literal", source_idx, s1.tpl_pos)
        ELSE s1

\* The regular character branch, templater.py:187-194.
RegularBranch(st, c, source_idx) ==
    LET s1 == IF st.current_slice_type # "literal"
              THEN start_new_slice(st, "literal", source_idx, st.tpl_pos)
              ELSE st
    IN  [s1 EXCEPT !.output = Append(@, c),
                   !.tpl_pos = @ + 1,
                   !.pos = @ + 1]

\* One iteration of the main loop, templater.py:91-194.
Iteration(st) ==
    LET c == At(select_statement, st.pos)
        source_idx == select_start_pos + st.pos
        s0 == [st EXCEPT !.read_idx = {st.pos}]
    IN  IF c = "@" THEN MacroBranch(s0, source_idx)
        ELSE RegularBranch(s0, c, source_idx)

\* The locals of the running call, as a record.
Locals ==
    [pos |-> pos, tpl_pos |-> tpl_pos, output |-> output,
     raw_slices |-> raw_slices, tpl_slices |-> tpl_slices,
     current_slice_type |-> current_slice_type,
     current_raw_slice_start |-> current_raw_slice_start,
     current_tpl_slice_start |-> current_tpl_slice_start,
     paren_count |-> paren_count, read_idx |-> read_idx]

SetLocals(st) ==
    /\ pos' = st.pos
    /\ tpl_pos' = st.tpl_pos
    /\ output' = st.output
    /\ raw_slices' = st.raw_slices
    /\ tpl_slices' = st.tpl_slices
    /\ current_slice_type' = st.current_slice_type
    /\ current_raw_slice_start' = st.current_raw_slice_start
    /\ current_tpl_slice_start' = st.current_tpl_slice_start
    /\ paren_count' = st.paren_count
    /\ read_idx' = st.read_idx

-----------------------------------------------------------------------------
(* State machine *)

Init ==
    /\ input_str \in Inputs
    /\ pc = "start"
    /\ select_start_pos = None
    /\ select_end_pos = None
    /\ select_statement = << >>
    /\ pos = 0
    /\ tpl_pos = 0
    /\ output = << >>
    /\ raw_slices = << >>
    /\ tpl_slices = << >>
    /\ current_slice_type = NoSlice
    /\ current_raw_slice_start = 0
    /\ current_tpl_slice_start = 0
    /\ paren_count = 0
    /\ read_idx = {}
    /\ templated_str = << >>
    /\ sliced_file = << >>
    /\ raw_sliced = << >>

\* SelectStatement that runs to the end of the file.
SelectStatement_ToEnd(s, from, to) == Slice(s, from, Len(s))

\* templater.py:239
SelectStatement(s, from, to) == Slice(s, from, to)

\* templater.py:216-245 with a SELECT token: the statement is bounded and
\* _process_select_statement is entered (its locals are those of Init).
BoundStatement ==
    /\ pc = "start"
    /\ LET b == FindSelect(input_str) IN
        /\ b.select_discovered
        /\ select_start_pos' = b.select_start_pos
        /\ select_end_pos' = b.select_end_pos
        /\ select_statement' =
               SelectStatement(input_str, b.select_start_pos, b.select_end_pos)
    /\ pc' = "scan"
    /\ UNCHANGED <<input_str, pos, tpl_pos, output, raw_slices, tpl_slices,
                   current_slice_type, current_raw_slice_start,
                   current_tpl_slice_start, paren_count, read_idx,
                   templated_str, sliced_file, raw_sliced>>

\* templater.py:233-234: raise SQLFluffSkipFile
SkipFile ==
    /\ pc = "start"
    /\ ~FindSelect(input_str).select_discovered
    /\ pc' = "skipped"
    /\ UNCHANGED <<input_str, select_start_pos, select_end_pos, select_statement,
                   pos, tpl_pos, output, raw_slices, tpl_slices,
                   current_slice_type, current_raw_slice_start,
                   current_tpl_slice_start, paren_count, read_idx,
                   templated_str, sliced_file, raw_sliced>>

\* templater.py:90-194: one iteration of "while pos < len(select_statement)"
ScanStep ==
    /\ pc = "scan"
    /\ pos < Len(select_statement)
    /\ SetLocals(Iteration(Locals))
    /\ UNCHANGED <<pc, input_str, select_start_pos, select_end_pos,
                   select_statement, templated_str, sliced_file, raw_sliced>>

\* templater.py:196-200: the loop is left, the open slice is closed
ScanEnd ==
    /\ pc = "scan"
    /\ ~(pos < Len(select_statement))
    /\ SetLocals([end_current_slice(Locals, select_start_pos + pos, tpl_pos)
                    EXCEPT !.read_idx = {}])
    /\ pc' = "assemble"
    /\ UNCHANGED <<input_str, select_start_pos, select_end_pos,
                   select_statement, templated_str, sliced_file, raw_sliced>>

\* templater.py:251-265
PreSlices(s, from) ==
    IF from > 0
    THEN [raw |-> <<[raw |-> Slice(s, 0, from), slice_type |-> "templated",
                     source_idx |-> 0]>>,
          tpl |-> <<[slice_type |-> "templated", source_slice |-> <<0, from>>,
                     templated_slice |-> <<0, 0>>]>>]
    ELSE [raw |-> << >>, tpl |-> << >>]

\* PostSlices that places the slice at rendered offset 0, as PreSlices does.
PostSlices_AtZero(s, to, templated_pos) ==
    IF to < Len(s)
    THEN [raw |-> <<[raw |-> Slice(s, to, Len(s)), slice_type |-> "templated",
                     source_idx |-> to]>>,
          tpl |-> <<[slice_type |-> "templated", source_slice |-> <<to, Len(s)>>,
                     templated_slice |-> <<0, 0>>]>>]
    ELSE [raw |-> << >>, tpl |-> << >>]

\* templater.py:271-285
PostSlices(s, to, templated_pos) ==
    IF to < Len(s)
    THEN [raw |-> <<[raw |-> Slice(s, to, Len(s)), slice_type |-> "templated",
                     source_idx |-> to]>>,
          tpl |-> <<[slice_type |-> "templated", source_slice |-> <<to, Len(s)>>,
                     templated_slice |-> <<templated_pos, templated_pos>>]>>]
    ELSE [raw |-> << >>, tpl |-> << >>]

\* templater.py:247-294: the slices of the whole file and the TemplatedFile
Assemble ==
    /\ pc = "assemble"
    /\ LET select_processed == output
           pre == PreSlices(input_str, select_start_pos)
           templated_pos == 0 + Len(select_processed)
           post == PostSlices(input_str, select_end_pos, templated_pos)
       IN  /\ raw_sliced' = pre.raw \o raw_slices \o post.raw
           /\ sliced_file' = pre.tpl \o tpl_slices \o post.tpl
           /\ templated_str' = select_processed
    /\ pc' = "done"
    /\ UNCHANGED <<input_str, select_start_pos, select_end_pos, select_statement,
                   pos, tpl_pos, output, raw_slices, tpl_slices,
                   current_slice_type, current_raw_slice_start,
                   current_tpl_slice_start, paren_count, read_idx>>

Next == BoundStatement \/ SkipFile \/ ScanStep \/ ScanEnd \/ Assemble

Spec == Init /\ [][Next]_vars

-----------------------------------------------------------------------------
(* Properties *)

Min(S) == CHOOSE x \in S : \A y \in S : x <= y

Range(f) == {f[i] : i \in DOMAIN f}

\* The half-open ranges, taken in order, cover [0, total) without gap or overlap.
Tiles(ranges, total) ==
    IF Len(ranges) = 0 THEN total = 0
    ELSE /\ ranges[1][1] = 0
         /\ \A i \in 1..Len(ranges) : ranges[i][1] <= ranges[i][2]
         /\ \A i \in 1..Len(ranges) - 1 : ranges[i + 1][1] = ranges[i][2]
         /\ ranges[Len(ranges)][2] = total

SourceRanges == [i \in 1..Len(sliced_file) |-> sliced_file[i].source_slice]

RenderedRanges == [i \in 1..Len(sliced_file) |-> sliced_file[i].templated_slice]

C2_RenderedRangesTile ==
    /\ pc \in {"scan", "assemble"} => tpl_pos = Len(output)
    /\ pc = "done" => Tiles(RenderedRanges, Len(templated_str))

\* A returned result with a deleted range, a placeholder range and literal
\* ranges, after text that follows the statement.
C2_Witness ==
    /\ pc = "done"
    /\ select_end_pos < Len(input_str)
    /\ \E i, j, k \in 1..Len(sliced_file) :
        /\ sliced_file[i].slice_type = "literal"
        /\ sliced_file[i].templated_slice[1] < sliced_file[i].templated_slice[2]
        /\ sliced_file[j].slice_type = "templated"
        /\ sliced_file[j].templated_slice[1] < sliced_file[j].templated_slice[2]
        /\ sliced_file[k].slice_type = "templated"
        /\ sliced_file[k].templated_slice[1] = sliced_file[k].templated_slice[2]
        /\ sliced_file[k].templated_slice[1] > 0

\* C3: for every mapped slice of kind LITERAL of a returned result, the two
\* ranges have the same length and the rendered text at the rendered range
\* equals the source text at the source range.
C3_LiteralFidelity ==
    pc = "done" =>
        \A i \in 1..Len(sliced_file) :
            sliced_file[i].slice_type = "literal" =>
                LET sr == sliced_file[i].source_slice
                    tr == sliced_file[i].templated_slice
                IN  /\ sr[2] - sr[1] = tr[2] - tr[1]
                    /\ 0 <= tr[1] /\ tr[2] <= Len(templated_str)
                    /\ 0 <= sr[1] /\ sr[2] <= Len(input_str)
                    /\ Slice(templated_str, tr[1], tr[2]) = Slice(input_str, sr[1], sr[2])

\* A returned result with a literal run after a macro name and after a
\* closing parenthesis, each of more than one character.
C3_Witness ==
    /\ pc = "done"
    /\ \E i, j \in 1..Len(sliced_file) :
        /\ i < j
        /\ sliced_file[i].slice_type = "literal"
        /\ sliced_file[i].source_slice[2] - sliced_file[i].source_slice[1] > 1
        /\ At(input_str, sliced_file[i].source_slice[1] - 1) = "@"
        /\ sliced_file[j].slice_type = "literal"
        /\ sliced_file[j].source_slice[2] - sliced_file[j].source_slice[1] > 1
        /\ At(input_str, sliced_file[j].source_slice[1]) = ")"

\* C4: when the render returns a result, no "@" of the source is copied into
\* rendered_text: every "@" of the bounded region lies in a GENERATED slice
\* (its own, of rendered length 0, or that of an argument list), never in a
\* LITERAL slice, and rendered_text contains no "@".
C4_NoSigilInRendered ==
    pc = "done" =>
        /\ \A i \in 1..Len(templated_str) : templated_str[i] # "@"
        /\ \A p \in select_start_pos .. select_end_pos - 1 :
            At(input_str, p) = "@" =>
                /\ \E i \in 1..Len(sliced_file) :
                    /\ sliced_file[i].slice_type = "templated"
                    /\ sliced_file[i].source_slice[1] <= p
                    /\ p < sliced_file[i].source_slice[2]
                /\ \A i \in 1..Len(sliced_file) :
                    (/\ sliced_file[i].source_slice[1] <= p
                     /\ p < sliced_file[i].source_slice[2])
                        => sliced_file[i].slice_type = "templated"

\* C5: select_start is the start of the first SELECT token; select_end is the
\* end of the first separator token after that SELECT token (separators
\* before it and later SELECT tokens are ignored), or len(source_text) when
\* there is none; without a SELECT token the render is skipped and returns
\* no result.
C5_StatementBounding ==
    LET T == tokenize(input_str)
        Sel == {i \in 1..Len(T) : T[i].token_type = "SELECT"}
    IN  IF Sel = {}
        THEN /\ pc \in {"start", "skipped"}
             /\ templated_str = << >> /\ sliced_file = << >> /\ raw_sliced = << >>
        ELSE LET first == Min(Sel)
                 Sep == {j \in first + 1 .. Len(T) : T[j].token_type = "SEMICOLON"}
             IN  /\ pc # "skipped"
                 /\ pc # "start" =>
                     /\ select_start_pos = T[first].start
                     /\ select_end_pos =
                            IF Sep = {} THEN Len(input_str) ELSE T[Min(Sep)].end

\* A bounded statement with a separator before the first SELECT token, a
\* second SELECT token inside the statement and a separator after it.
C5_Witness ==
    /\ pc = "done"
    /\ LET T == tokenize(input_str) IN
        \E i, j, k, l \in 1..Len(T) :
            /\ i < j /\ j < k /\ k < l
            /\ T[i].token_type = "SEMICOLON"
            /\ T[j].token_type = "SELECT"
            /\ T[k].token_type = "SELECT"
            /\ T[l].token_type = "SEMICOLON"
            /\ select_start_pos = T[j].start
            /\ select_end_pos = T[l].end

\* C6: rendered_text is the rendering of source_text[select_start:select_end]
\* alone: the text before select_start and the text after select_end are,
\* when non-empty, one GENERATED slice each of rendered length 0 (at rendered
\* offset 0 and at len(rendered_text)), every other slice lies inside the
\* region, and the rendered ranges of the region's slices make up the whole
\* rendered text.
C6_OuterTextDropped ==
    pc = "done" =>
        LET n == Len(sliced_file)
            hasPre == select_start_pos > 0
            hasPost == select_end_pos < Len(input_str)
            inner == {i \in 1..n : (hasPre => i > 1) /\ (hasPost => i < n)}
        IN  /\ templated_str = output
            /\ hasPre =>
                /\ n >= 1
                /\ sliced_file[1] = [slice_type |-> "templated",
                                     source_slice |-> <<0, select_start_pos>>,
                                     templated_slice |-> <<0, 0>>]
                /\ raw_sliced[1].raw = Slice(input_str, 0, select_start_pos)
            /\ hasPost =>
                /\ n >= 1
                /\ sliced_file[n] =
                       [slice_type |-> "templated",
                        source_slice |-> <<select_end_pos, Len(input_str)>>,
                        templated_slice |-> <<Len(templated_str), Len(templated_str)>>]
                /\ raw_sliced[n].raw = Slice(input_str, select_end_pos, Len(input_str))
            /\ n = Len(tpl_slices) + (IF hasPre THEN 1 ELSE 0) + (IF hasPost THEN 1 ELSE 0)
            /\ \A i \in inner :
                /\ select_start_pos <= sliced_file[i].source_slice[1]
                /\ sliced_file[i].source_slice[1] <= select_end_pos
                /\ select_start_pos <= sliced_file[i].source_slice[2]
                /\ sliced_file[i].source_slice[2] <= select_end_pos
            /\ \A i \in inner :
                sliced_file[i].slice_type = "literal" =>
                    Slice(templated_str, sliced_file[i].templated_slice[1],
                          sliced_file[i].templated_slice[2])
                      = Slice(select_statement,
                              sliced_file[i].source_slice[1] - select_start_pos,
                              sliced_file[i].source_slice[2] - select_start_pos)

\* A returned result whose statement has macros before it and after it.
C6_Witness ==
    /\ pc = "done"
    /\ \E p \in 0 .. select_start_pos - 1 : At(input_str, p) = "@"
    /\ \E p \in select_end_pos .. Len(input_str) - 1 : At(input_str, p) = "@"
    /\ Len(templated_str) > 0

\* The end of the maximal run of characters satisfying P that starts at p.
RunEnd(s, p, P(_)) ==
    CHOOSE q \in p..Len(s) :
        /\ \A i \in p..q - 1 : P(At(s, i))
        /\ q = Len(s) \/ ~P(At(s, q))

\* Opening minus closing parentheses in s[a..b].
Depth(s, a, b) ==
    Cardinality({i \in a..b : At(s, i) = "("}) - Cardinality({i \in a..b : At(s, i) = ")"})

\* The index of the parenthesis that closes the one at open; None without one.
MatchClose(s, open) ==
    LET M == {m \in open + 1 .. Len(s) - 1 : Depth(s, open, m) = 0}
    IN  IF M = {} THEN None ELSE Min(M)

\* The single-quoted placeholder literal, 13 characters.
QuotedPlaceholder ==
    <<"'", "P", "L", "A", "C", "E", "H", "O", "L", "D", "E", "R", "'">>

\* What the rules for macros ask of the region s from offset p on: the
\* rendered text, the argument ranges replaced by the placeholder, and
\* whether every function call macro was closed (the text stops at the
\* "(" of one that is not).
RECURSIVE Rendering(_, _)
Rendering(s, p) ==
    IF p >= Len(s) THEN [text |-> << >>, args |-> << >>, complete |-> TRUE]
    ELSE IF At(s, p) # "@" THEN
        LET r == Rendering(s, p + 1)
        IN  [r EXCEPT !.text = <<At(s, p)>> \o @]
    ELSE
        LET n == RunEnd(s, p + 1, IsIdentChar)
            w == RunEnd(s, n, isspace)
        IN  IF w < Len(s) /\ At(s, w) = "(" THEN
                LET m == MatchClose(s, w) IN
                IF m = None
                THEN [text |-> Slice(s, p + 1, w + 1), args |-> << >>,
                      complete |-> FALSE]
                ELSE LET r == Rendering(s, m + 1)
                     IN  [r EXCEPT
                            !.text = Slice(s, p + 1, w + 1) \o QuotedPlaceholder
                                        \o <<")">> \o @,
                            !.args = <<<<w + 1, m>>>> \o @]
            ELSE LET r == Rendering(s, w)
                 IN  [r EXCEPT !.text = Slice(s, p + 1, w) \o @]

IsPrefix(a, b) == Len(a) <= Len(b) /\ SubSeq(b, 1, Len(a)) = a

\* The GENERATED slices of the region with a rendered text, in order.
PlaceholderSlices ==
    SelectSeq(tpl_slices,
              LAMBDA x : x.slice_type = "templated"
                         /\ x.templated_slice[1] < x.templated_slice[2])

\* C7: every function call macro "@name(args)" of the region with balanced
\* parentheses renders as name, the whitespace, "(", the quoted placeholder
\* and ")": the "@" is deleted, the bytes between the outer parentheses are
\* one GENERATED slice rendered as the placeholder, and every character
\* outside sigils and argument lists is copied unchanged and in order.  (Up
\* to the first function call macro that is never closed, if there is one.)
C7_FunctionCallRendering ==
    pc = "done" =>
        LET r == Rendering(select_statement, 0)
            G == PlaceholderSlices
        IN  /\ IsPrefix(r.text, templated_str)
            /\ r.complete => templated_str = r.text /\ Len(G) = Len(r.args)
            /\ Len(G) >= Len(r.args)
            /\ \A i \in 1..Len(r.args) :
                /\ G[i].source_slice = <<select_start_pos + r.args[i][1],
                                         select_start_pos + r.args[i][2]>>
                /\ Slice(templated_str, G[i].templated_slice[1],
                         G[i].templated_slice[2]) = QuotedPlaceholder

\* A returned result with a closed function call macro whose name is
\* followed by whitespace and whose arguments hold a comma, a line break and
\* nested parentheses, and with another one without arguments.
C7_Witness ==
    /\ pc = "done"
    /\ LET r == Rendering(select_statement, 0) IN
        /\ r.complete
        /\ \E i, j \in 1..Len(r.args) :
            /\ r.args[j][1] = r.args[j][2]
            /\ isspace(At(select_statement, r.args[i][1] - 2))
            /\ \E a, b, c, d \in r.args[i][1] .. r.args[i][2] - 1 :
                /\ At(select_statement, a) = "("
                /\ At(select_statement, b) = ")"
                /\ At(select_statement, c) = ","
                /\ At(select_statement, d) = "\n"

\* "SELECT 'PLACEHOLDER' AS x"
Scenario1Claimed ==
    <<"S","E","L","E","C","T"," ","'","P","L","A","C","E","H","O","L","D","E","R","'",
      " ","A","S"," ","x">>

\* "SELECT foo('PLACEHOLDER') AS x"
Scenario1Rendered ==
    <<"S","E","L","E","C","T"," ","f","o","o","(","'","P","L","A","C","E","H","O","L",
      "D","E","R","'",")"," ","A","S"," ","x">>

\* C8 as claimed: "SELECT @foo() AS x;" renders to "SELECT 'PLACEHOLDER' AS x".
C8_Scenario1AsClaimed ==
    (pc = "done" /\ input_str = Scenario1) => templated_str = Scenario1Claimed

\* C8, amended: "SELECT @foo() AS x;" renders to
\* "SELECT foo('PLACEHOLDER') AS x": the macro name and its parentheses stay.
C8_Scenario1 ==
    (pc = "done" /\ input_str = Scenario1) => templated_str = Scenario1Rendered

\* The render of "SELECT @foo() AS x;" has returned.
C8_Witness ==
    pc = "done" /\ input_str = Scenario1 /\ Len(sliced_file) > 0

\* C9: when the region holds a function call macro whose opening
\* parenthesis is never matched, the render fails and returns no result.
C9_UnterminatedFails ==
    pc \in {"assemble", "done"} =>
        /\ paren_count = 0
        /\ Rendering(select_statement, 0).complete

\* C10: the character scan terminates: pos strictly increases on every
\* iteration of the main loop and never exceeds len(region), no character is
\* read at an index outside [0, len(region)), and the scan ends with
\* pos = len(region).
C10_ScanTerminates ==
    [][/\ (pc = "scan" /\ pc' = "scan") => pos' > pos
       /\ pc' \in {"scan", "assemble", "done"} =>
            /\ 0 <= pos' /\ pos' <= Len(select_statement')
            /\ \A i \in read_idx' : 0 <= i /\ i < Len(select_statement')
       /\ pc' \in {"assemble", "done"} => pos' = Len(select_statement')]_vars

\* The scan has ended on a region that ends inside an unclosed argument
\* list, having read the last character of the region.
C10_Witness ==
    /\ pc = "assemble"
    /\ paren_count > 0
    /\ pos = Len(select_statement)
    /\ At(select_statement, pos - 1) # "("
====
